---------------------------- MODULE Spec2Model ----------------------------
(***************************************************************************)
(* Model of todo-rust (src/src/main.rs): the line grammar of a list file   *)
(* (App::load_todos / App::save_todos), the selection operations of App,   *)
(* and the interactive session (show_tui / run_app / show_fireworks).      *)
(*                                                                         *)
(* Text is a sequence of one-character strings.  "\n" is the line break,   *)
(* " " and "\r" are the white space that str::trim removes.                *)
(***************************************************************************)
EXTENDS Naturals, Integers, Sequences, FiniteSets, TLC

VARIABLES
    \* ---- interactive session (show_tui / run_app) ----
    file,       \* content of the list file on disk
    items,      \* App.items
    selected,   \* App.selected
    pc,         \* "Start", "Running", "ShowingCelebration", "Terminated", "Panicked"
    term,       \* terminal: raw mode, alternate screen, mouse capture, cursor shown
    result,     \* what show_tui returned: "none", "Ok", "Err"
    reported,   \* TRUE once show_tui printed "Error: ..." (main.rs:915)
    exitPath,   \* why the session ended
    loaded,     \* history: the items as App::new loaded them
    last,       \* history: the key event handled last
    walk,       \* history: the current run of consecutive next() calls
    uncelebrated, \* history: toggles that completed the list minus calls of show_fireworks
    teardown,   \* history: how the restore steps of show_tui went, "none" before them
    missing,    \* history: load_todos found no file at the path
    \* ---- parse / serialize passes over one text ----
    input,      \* the text the passes started from
    stage,      \* 0 text, 1 parsed, 2 serialized, 3 parsed again, 4 serialized again
    doc,        \* the result of the latest parse
    text,       \* the result of the latest serialization
    first,      \* the result of the first serialization
    shown       \* what `todo list` printed for the text

sessionVars == <<file, items, selected, pc, term, result, reported, exitPath,
                 loaded, last, walk, uncelebrated, teardown,
                 missing>>
textVars == <<input, stage, doc, text, first, shown>>
vars == <<file, items, selected, pc, term, result, reported, exitPath,
          loaded, last, walk, uncelebrated, teardown, missing, input, stage, doc,
          text, first, shown>>

-----------------------------------------------------------------------------
(* Bounds *)

\* most lines of a list file a session starts from
MaxLines == 3
\* most tokens of a text handed to the parse / serialize passes
MaxTokens == 3
\* most toggle events in a row the history counts
MaxToggleRun == 4

-----------------------------------------------------------------------------
(* Strings *)

NL == "\n"
CR == "\r"

\* char::is_whitespace, on the characters of the model
IsSpace(c) == c \in {" ", CR, NL}

Drop(s, n) == IF n >= Len(s) THEN <<>> ELSE SubSeq(s, n + 1, Len(s))

\* str::starts_with
starts_with(s, p) == Len(s) >= Len(p) /\ SubSeq(s, 1, Len(p)) = p

RECURSIVE trim_start(_)
trim_start(s) ==
    IF s # <<>> /\ IsSpace(Head(s)) THEN trim_start(Tail(s)) ELSE s

RECURSIVE trim_end(_)
trim_end(s) ==
    IF s # <<>> /\ IsSpace(s[Len(s)]) THEN trim_end(SubSeq(s, 1, Len(s) - 1)) ELSE s

\* str::trim
trim(s) == trim_end(trim_start(s))

\* BufRead::lines: split at "\n"; the "\n", and one "\r" before it, are not
\* part of the line; a last line without "\n" is a line; nothing follows a
\* final "\n".
RECURSIVE split_lines(_, _, _)
split_lines(s, cur, acc) ==
    IF s = <<>> THEN (IF cur = <<>> THEN acc ELSE Append(acc, cur))
    ELSE IF Head(s) = NL
         THEN split_lines(Tail(s), <<>>,
                  Append(acc, IF cur # <<>> /\ cur[Len(cur)] = CR
                              THEN SubSeq(cur, 1, Len(cur) - 1) ELSE cur))
         ELSE split_lines(Tail(s), Append(cur, Head(s)), acc)

lines(s) == split_lines(s, <<>>, <<>>)

RECURSIVE Concat(_)
Concat(ss) == IF ss = <<>> THEN <<>> ELSE Head(ss) \o Concat(Tail(ss))

-----------------------------------------------------------------------------
(* The line grammar: App::load_todos and App::save_todos *)

P_OPEN  == <<"*", " ", "[", " ", "]">>
P_DONE  == <<"*", " ", "[", "x", "]">>
P_DONEX == <<"*", " ", "[", "X", "]">>
P_H1    == <<"=", " ">>
P_H2    == <<"=", "=", " ">>
P_H3    == <<"=", "=", "=", " ">>
P_BUL   == <<"*", " ">>
P_BRA   == <<"*", " ", "[">>

TodoItem(t, c, k) == [text |-> t, completed |-> c, line_type |-> k]

\* load_todos without the strip of a todo's text (a faulty variant of parse_line)
parse_line_keep_space(line) ==
    LET trimmed == trim(line) IN
    IF starts_with(trimmed, P_OPEN) THEN TodoItem(Drop(trimmed, 5), FALSE, "Todo")
    ELSE IF starts_with(trimmed, P_DONE) \/ starts_with(trimmed, P_DONEX)
         THEN TodoItem(Drop(trimmed, 5), TRUE, "Todo")
    ELSE IF starts_with(trimmed, P_H1) THEN TodoItem(Drop(trimmed, 2), FALSE, "Header1")
    ELSE IF starts_with(trimmed, P_H2) THEN TodoItem(Drop(trimmed, 3), FALSE, "Header2")
    ELSE IF starts_with(trimmed, P_H3) THEN TodoItem(Drop(trimmed, 4), FALSE, "Header3")
    ELSE IF starts_with(trimmed, P_BUL) /\ ~starts_with(trimmed, P_BRA)
         THEN TodoItem(Drop(trimmed, 2), FALSE, "Bullet")
    ELSE IF trimmed = <<>> THEN TodoItem(<<>>, FALSE, "Empty")
    ELSE TodoItem(trimmed, FALSE, "Text")

\* load_todos with every other "* " line a bullet (a faulty variant of parse_line)
parse_line_bullet_any(line) ==
    LET trimmed == trim(line) IN
    IF starts_with(trimmed, P_OPEN)
    THEN TodoItem(trim(Drop(trimmed, 5)), FALSE, "Todo")
    ELSE IF starts_with(trimmed, P_DONE) \/ starts_with(trimmed, P_DONEX)
         THEN TodoItem(trim(Drop(trimmed, 5)), TRUE, "Todo")
    ELSE IF starts_with(trimmed, P_H1) THEN TodoItem(Drop(trimmed, 2), FALSE, "Header1")
    ELSE IF starts_with(trimmed, P_H2) THEN TodoItem(Drop(trimmed, 3), FALSE, "Header2")
    ELSE IF starts_with(trimmed, P_H3) THEN TodoItem(Drop(trimmed, 4), FALSE, "Header3")
    ELSE IF starts_with(trimmed, P_BUL)
         THEN TodoItem(Drop(trimmed, 2), FALSE, "Bullet")
    ELSE IF trimmed = <<>> THEN TodoItem(<<>>, FALSE, "Empty")
    ELSE TodoItem(trimmed, FALSE, "Text")

\* load_todos with "=" alone taken for the first header prefix (a faulty variant of parse_line)
parse_line_loose_header(line) ==
    LET trimmed == trim(line) IN
    IF starts_with(trimmed, P_OPEN)
    THEN TodoItem(trim(Drop(trimmed, 5)), FALSE, "Todo")
    ELSE IF starts_with(trimmed, P_DONE) \/ starts_with(trimmed, P_DONEX)
         THEN TodoItem(trim(Drop(trimmed, 5)), TRUE, "Todo")
    ELSE IF starts_with(trimmed, <<"=">>) THEN TodoItem(Drop(trimmed, 2), FALSE, "Header1")
    ELSE IF starts_with(trimmed, P_H2) THEN TodoItem(Drop(trimmed, 3), FALSE, "Header2")
    ELSE IF starts_with(trimmed, P_H3) THEN TodoItem(Drop(trimmed, 4), FALSE, "Header3")
    ELSE IF starts_with(trimmed, P_BUL) /\ ~starts_with(trimmed, P_BRA)
         THEN TodoItem(Drop(trimmed, 2), FALSE, "Bullet")
    ELSE IF trimmed = <<>> THEN TodoItem(<<>>, FALSE, "Empty")
    ELSE TodoItem(trimmed, FALSE, "Text")

\* load_todos that knows "* [x]" only (a faulty variant of parse_line)
parse_line_lower_only(line) ==
    LET trimmed == trim(line) IN
    IF starts_with(trimmed, P_OPEN)
    THEN TodoItem(trim(Drop(trimmed, 5)), FALSE, "Todo")
    ELSE IF starts_with(trimmed, P_DONE)
         THEN TodoItem(trim(Drop(trimmed, 5)), TRUE, "Todo")
    ELSE IF starts_with(trimmed, P_H1) THEN TodoItem(Drop(trimmed, 2), FALSE, "Header1")
    ELSE IF starts_with(trimmed, P_H2) THEN TodoItem(Drop(trimmed, 3), FALSE, "Header2")
    ELSE IF starts_with(trimmed, P_H3) THEN TodoItem(Drop(trimmed, 4), FALSE, "Header3")
    ELSE IF starts_with(trimmed, P_BUL) /\ ~starts_with(trimmed, P_BRA)
         THEN TodoItem(Drop(trimmed, 2), FALSE, "Bullet")
    ELSE IF trimmed = <<>> THEN TodoItem(<<>>, FALSE, "Empty")
    ELSE TodoItem(trimmed, FALSE, "Text")

\* the body of the loop of load_todos: one line to one TodoItem
parse_line(line) ==
    LET trimmed == trim(line) IN
    IF starts_with(trimmed, P_OPEN)
    THEN TodoItem(trim(Drop(trimmed, 5)), FALSE, "Todo")
    ELSE IF starts_with(trimmed, P_DONE) \/ starts_with(trimmed, P_DONEX)
         THEN TodoItem(trim(Drop(trimmed, 5)), TRUE, "Todo")
    ELSE IF starts_with(trimmed, P_H1) THEN TodoItem(Drop(trimmed, 2), FALSE, "Header1")
    ELSE IF starts_with(trimmed, P_H2) THEN TodoItem(Drop(trimmed, 3), FALSE, "Header2")
    ELSE IF starts_with(trimmed, P_H3) THEN TodoItem(Drop(trimmed, 4), FALSE, "Header3")
    ELSE IF starts_with(trimmed, P_BUL) /\ ~starts_with(trimmed, P_BRA)
         THEN TodoItem(Drop(trimmed, 2), FALSE, "Bullet")
    ELSE IF trimmed = <<>> THEN TodoItem(<<>>, FALSE, "Empty")
    ELSE TodoItem(trimmed, FALSE, "Text")

\* App::load_todos on the content of an existing, readable file
load_todos(s) == LET ls == lines(s) IN [i \in 1..Len(ls) |-> parse_line(ls[i])]

\* save_todos with the line of an Empty record forgotten (a faulty variant of save_line)
save_line_drop_empty(item) ==
    CASE item.line_type = "Todo" ->
            (IF item.completed THEN P_DONE ELSE P_OPEN) \o <<" ">> \o item.text \o <<NL>>
      [] item.line_type = "Header1" -> P_H1 \o item.text \o <<NL>>
      [] item.line_type = "Header2" -> P_H2 \o item.text \o <<NL>>
      [] item.line_type = "Header3" -> P_H3 \o item.text \o <<NL>>
      [] item.line_type = "Bullet"  -> P_BUL \o item.text \o <<NL>>
      [] item.line_type = "Text"    -> item.text \o <<NL>>
      [] item.line_type = "Empty"   -> <<>>

\* the match of save_todos: one TodoItem to one line
save_line(item) ==
    CASE item.line_type = "Todo" ->
            (IF item.completed THEN P_DONE ELSE P_OPEN) \o <<" ">> \o item.text \o <<NL>>
      [] item.line_type = "Header1" -> P_H1 \o item.text \o <<NL>>
      [] item.line_type = "Header2" -> P_H2 \o item.text \o <<NL>>
      [] item.line_type = "Header3" -> P_H3 \o item.text \o <<NL>>
      [] item.line_type = "Bullet"  -> P_BUL \o item.text \o <<NL>>
      [] item.line_type = "Text"    -> item.text \o <<NL>>
      [] item.line_type = "Empty"   -> <<NL>>

\* the content save_todos hands to fs::write
save_content(its) == Concat([i \in 1..Len(its) |-> save_line(its[i])])

\* one printed line of display_todo_list: its shape and its text
Shown(shape, t) == [shape |-> shape, text |-> t]

\* display_todo_list with "* [x]" as the only complete mark (a faulty variant of display_line)
display_line_lower_only(line) ==
    LET trimmed == trim(line) IN
    IF starts_with(trimmed, P_OPEN) THEN Shown("open_box", trim(Drop(trimmed, 5)))
    ELSE IF starts_with(trimmed, P_DONE)
         THEN Shown("checked_box", trim(Drop(trimmed, 5)))
    ELSE IF starts_with(trimmed, P_H1) THEN Shown("header1", Drop(trimmed, 2))
    ELSE IF starts_with(trimmed, P_H2) THEN Shown("header2", Drop(trimmed, 3))
    ELSE IF starts_with(trimmed, P_H3) THEN Shown("header3", Drop(trimmed, 4))
    ELSE IF starts_with(trimmed, P_BUL) /\ ~starts_with(trimmed, P_BRA)
         THEN Shown("bullet", Drop(trimmed, 2))
    ELSE IF trimmed # <<>> THEN Shown("text", trimmed)
    ELSE Shown("blank", <<>>)

\* the if-chain of display_todo_list on one line (main.rs:537-589)
display_line(line) ==
    LET trimmed == trim(line) IN
    IF starts_with(trimmed, P_OPEN) THEN Shown("open_box", trim(Drop(trimmed, 5)))
    ELSE IF starts_with(trimmed, P_DONE) \/ starts_with(trimmed, P_DONEX)
         THEN Shown("checked_box", trim(Drop(trimmed, 5)))
    ELSE IF starts_with(trimmed, P_H1) THEN Shown("header1", Drop(trimmed, 2))
    ELSE IF starts_with(trimmed, P_H2) THEN Shown("header2", Drop(trimmed, 3))
    ELSE IF starts_with(trimmed, P_H3) THEN Shown("header3", Drop(trimmed, 4))
    ELSE IF starts_with(trimmed, P_BUL) /\ ~starts_with(trimmed, P_BRA)
         THEN Shown("bullet", Drop(trimmed, 2))
    ELSE IF trimmed # <<>> THEN Shown("text", trimmed)
    ELSE Shown("blank", <<>>)

NoListing == [printed |-> <<>>, incomplete_count |-> 0, complete_count |-> 0,
              has_todos |-> FALSE]

\* display_todo_list on the content of an existing, readable file: the lines
\* printed, the two counters and has_todos (the summary line is printed only
\* when has_todos)
display_todo_list(s) ==
    LET ls == lines(s)
        out == [i \in 1..Len(ls) |-> display_line(ls[i])]
        open == {i \in 1..Len(ls) : out[i].shape = "open_box"}
        done == {i \in 1..Len(ls) : out[i].shape = "checked_box"}
    IN  [printed |-> out,
         incomplete_count |-> Cardinality(open),
         complete_count |-> Cardinality(done),
         has_todos |-> (open \cup done) # {}]


-----------------------------------------------------------------------------
(* Selection: App::new, next, previous, goto_top, goto_bottom, toggle_current *)
(* selected is the 0-based index of the source; items[selected] of the      *)
(* source is its[selected + 1] here.  Panic is the result of an operation   *)
(* where Rust panics (index out of range, remainder by zero, usize below    *)
(* zero).                                                                   *)

Panic == 0 - 1

IsTodo(item) == item.line_type = "Todo"

TodoIndices(its) == {i \in 0..(Len(its) - 1) : IsTodo(its[i + 1])}

Min(S) == CHOOSE m \in S : \A n \in S : m <= n
Max(S) == CHOOSE m \in S : \A n \in S : m >= n

\* the loop of next()
RECURSIVE next_loop(_, _, _)
next_loop(its, cur, start) ==
    IF Len(its) = 0 THEN Panic
    ELSE LET s == (cur + 1) % Len(its) IN
         IF IsTodo(its[s + 1]) \/ s = start THEN s ELSE next_loop(its, s, start)

\* next() without the skip of non-Todo records (a faulty variant of next)
next_no_skip(its, sel) == IF Len(its) = 0 THEN sel ELSE (sel + 1) % Len(its)

\* next() without the is_empty return (a faulty variant of next)
next_unguarded(its, sel) == next_loop(its, sel, sel)

next(its, sel) == IF Len(its) = 0 THEN sel ELSE next_loop(its, sel, sel)

\* the loop of previous()
RECURSIVE previous_loop(_, _, _)
previous_loop(its, cur, start) ==
    LET s == IF cur = 0 THEN Len(its) - 1 ELSE cur - 1 IN
    IF s < 0 \/ s >= Len(its) THEN Panic
    ELSE IF IsTodo(its[s + 1]) \/ s = start THEN s ELSE previous_loop(its, s, start)

\* previous() without the skip of non-Todo records (a faulty variant of previous)
previous_no_skip(its, sel) ==
    IF Len(its) = 0 THEN sel ELSE IF sel = 0 THEN Len(its) - 1 ELSE sel - 1

previous(its, sel) == IF Len(its) = 0 THEN sel ELSE previous_loop(its, sel, sel)

\* the jump to index 0 whatever the kinds (a faulty variant of goto_top)
goto_top_first_line(its) == 0

\* iter().position(is Todo).unwrap_or(0): App::new and goto_top
goto_top(its) == IF TodoIndices(its) # {} THEN Min(TodoIndices(its)) ELSE 0

\* goto_bottom() that jumps to the last line whatever its kind (a faulty variant of goto_bottom)
goto_bottom_last_line(its) == IF Len(its) = 0 THEN 0 ELSE Len(its) - 1

\* iter().rposition(is Todo).unwrap_or(len.saturating_sub(1))
goto_bottom(its) ==
    IF TodoIndices(its) # {} THEN Max(TodoIndices(its))
    ELSE IF Len(its) = 0 THEN 0 ELSE Len(its) - 1

\* toggle_current() that marks the record complete instead of flipping it (a faulty variant)
\* the flip without the test of the kind (a faulty variant of toggle_current)
toggle_current_any_kind(its, sel) ==
    IF sel < Len(its)
    THEN [its EXCEPT ![sel + 1].completed = ~its[sel + 1].completed]
    ELSE its

\* the flip of every Todo record (a faulty variant of toggle_current)
toggle_current_all(its, sel) ==
    IF sel < Len(its) /\ IsTodo(its[sel + 1])
    THEN [i \in 1..Len(its) |->
            IF IsTodo(its[i]) THEN [its[i] EXCEPT !.completed = ~its[i].completed]
            ELSE its[i]]
    ELSE its

toggle_current_set(its, sel) ==
    IF sel < Len(its) /\ IsTodo(its[sel + 1])
    THEN [its EXCEPT ![sel + 1].completed = TRUE]
    ELSE its

toggle_current(its, sel) ==
    IF sel < Len(its)
    THEN IF IsTodo(its[sel + 1])
         THEN [its EXCEPT ![sel + 1].completed = ~its[sel + 1].completed]
         ELSE its
    ELSE its

\* count_todos: (incomplete, complete)
count_todos(its) ==
    << Cardinality({i \in TodoIndices(its) : ~its[i + 1].completed}),
       Cardinality({i \in TodoIndices(its) : its[i + 1].completed}) >>

-----------------------------------------------------------------------------
(* The toggle key of run_app (main.rs:828-864) *)

had_incomplete(its) == \E i \in 1..Len(its) : IsTodo(its[i]) /\ ~its[i].completed

all_complete(its) == \A i \in 1..Len(its) : IsTodo(its[i]) => its[i].completed

\* the test passed by every toggle of a list with a Todo (a faulty variant of celebration_due)
celebration_due_any_toggle(before, after) ==
    \E i \in 1..Len(after) : IsTodo(after[i])

\* the test with all_complete taken before toggle_current (a faulty variant of celebration_due)
celebration_due_stale(before, after) ==
    had_incomplete(before) /\ all_complete(before)
        /\ \E i \in 1..Len(after) : IsTodo(after[i])

\* the condition of the if at main.rs:841
celebration_due(before, after) ==
    had_incomplete(before) /\ all_complete(after)
        /\ \E i \in 1..Len(after) : IsTodo(after[i])

\* the save placed before toggle_current (a faulty variant of items_saved_on_toggle)
items_saved_before_toggle(before, after) == before

\* what app.save_todos() at main.rs:842 serializes: app.items after the
\* toggle_current() of main.rs:833
items_saved_on_toggle(before, after) == after

\* fs::write that is skipped (a faulty variant of save_todos)
save_todos_skipped(its, ok, old) == old

\* the file after save_todos: written whole when fs::write succeeds
save_todos(its, ok, old) == IF ok THEN save_content(its) ELSE old

-----------------------------------------------------------------------------
(* The terminal *)

\* the terminal before show_tui touches it
PriorTerm == [raw |-> FALSE, alt |-> FALSE, mouse |-> FALSE, cursor |-> TRUE]

\* enable_raw_mode; execute!(EnterAlternateScreen, EnableMouseCapture)
\* the switch without enable_raw_mode (a faulty variant of enter_tui)
enter_tui_no_raw(t) == [t EXCEPT !.alt = TRUE, !.mouse = TRUE]

enter_tui(t) == [t EXCEPT !.raw = TRUE, !.alt = TRUE, !.mouse = TRUE]

\* disable_raw_mode; execute!(LeaveAlternateScreen, DisableMouseCapture)
leave_tui(t) == [t EXCEPT !.raw = FALSE, !.alt = FALSE, !.mouse = FALSE]

\* terminal.draw: ratatui hides the cursor when the frame sets no cursor position
draw(t) == [t EXCEPT !.cursor = FALSE]

RestoreOutcomes == {"ok", "disable_raw_fail", "leave_fail", "show_cursor_fail"}

\* the restore steps of show_tui that were called when they went as o
RestoreSteps == {"disable_raw_mode", "leave_alternate_screen", "show_cursor"}

attempted(o) ==
    CASE o = "none"             -> {}
      [] o = "disable_raw_fail" -> {"disable_raw_mode"}
      [] o = "leave_fail"       -> {"disable_raw_mode", "leave_alternate_screen"}
      [] OTHER                  -> RestoreSteps

\* show_tui after run_app returned (main.rs:905-912); each step returns early on failure
restore(t, o) ==
    CASE o = "disable_raw_fail" -> t
      [] o = "leave_fail"       -> [t EXCEPT !.raw = FALSE]
      [] o = "show_cursor_fail" -> leave_tui(t)
      [] o = "ok"               -> [leave_tui(t) EXCEPT !.cursor = TRUE]

-----------------------------------------------------------------------------
(* Inputs *)

\* lines a list file is made of: an open todo, a done todo written with a
\* leading blank, "X" and no blank before its text, a header, a bullet, a
\* blank line, and free text with a trailing blank
SampleLines ==
    << <<"*", " ", "[", " ", "]", " ", "a">>,
       <<" ", "*", " ", "[", "X", "]", "b">>,
       <<"=", "=", " ", "h">>,
       <<"*", " ", "e">>,
       <<>>,
       <<"n", " ">> >>

\* the list files a session starts from: up to MaxLines sample lines
SessionFiles ==
    UNION { { Concat([i \in 1..n |-> SampleLines[f[i]] \o <<NL>>]) :
                f \in [1..n -> 1..Len(SampleLines)] } : n \in 0..MaxLines }

\* the pieces the texts of the parse / serialize passes are made of
Tokens ==
    { P_OPEN, P_DONE, P_DONEX, P_BRA, P_BUL, <<"*">>, P_H1, P_H2, P_H3,
      <<" ">>, <<"a">>, <<"=">>, <<CR>>, <<NL>> }

\* the six-line list of the project's description; its last line has no line break
Example ==
    << "*", " ", "[", " ", "]", " ", "b", "u", "y", " ", "m", "i", "l", "k", 
       "\n", "*", " ", "[", "x", "]", " ", "p", "a", "y", " ", "r", "e", 
       "n", "t", "\n", "=", "=", " ", "S", "h", "o", "p", "p", "i", "n", 
       "g", "\n", "*", " ", "e", "g", "g", "s", "\n", "\n", "n", "o", "t", 
       "e", " ", "t", "o", " ", "s", "e", "l", "f" >>

TextInputs ==
    UNION { { Concat(f) : f \in [1..n -> Tokens] } : n \in 0..MaxTokens }
        \cup {Example, Example \o <<NL>>}

-----------------------------------------------------------------------------
(* The interactive session: show_tui, run_app, show_fireworks *)

\* key: the event; before, selBefore: items and selected before it; fired:
\* calls of show_fireworks it made; saved: a save_todos of it succeeded;
\* outcome: the call of it that failed, or "ok"; toggles: the toggle events
\* in a row that it ends (counted up to MaxToggleRun)
NoEvent == [key |-> "none", before |-> <<>>, selBefore |-> 0, fired |-> 0,
            saved |-> FALSE, outcome |-> "ok", toggles |-> 0]

Event(k, f, sv, o) ==
    [key |-> k, before |-> items, selBefore |-> selected,
     fired |-> f, saved |-> sv, outcome |-> o,
     toggles |-> IF k # "toggle" THEN 0
                 ELSE IF last.toggles < MaxToggleRun THEN last.toggles + 1
                 ELSE MaxToggleRun]

NoWalk(sel) == [start |-> sel, n |-> 0, onlyTodo |-> TRUE]

\* the value of file when no file exists at the path
NoFile == <<"(no file)">>

\* ensure_active_list_exists: an absent file is created empty
ensure_active_list_exists(f) == IF f = NoFile THEN <<>> ELSE f

\* load_todos without the path.exists() test: File::open fails on an absent
\* file (a faulty variant of load_path)
load_path_always_open(present, content, io_ok) ==
    IF present /\ io_ok THEN [ok |-> TRUE, items |-> load_todos(content)]
    ELSE [ok |-> FALSE, items |-> <<>>]

\* load_todos on a path: Ok(empty) when nothing exists there, Err when the
\* file cannot be opened or read, else the records of its lines
load_path(present, content, io_ok) ==
    IF ~present THEN [ok |-> TRUE, items |-> <<>>]
    ELSE IF ~io_ok THEN [ok |-> FALSE, items |-> <<>>]
    ELSE [ok |-> TRUE, items |-> load_todos(content)]

StartOutcomes ==
    {"ok", "create_fail", "enable_raw_fail", "enter_fail", "backend_fail", "load_fail"}

SomeTodoIncomplete(its) == \E i \in 1..Len(its) : IsTodo(its[i]) /\ ~its[i].completed
EveryTodoComplete(its) == \A i \in 1..Len(its) : IsTodo(its[i]) => its[i].completed

\* 1 for a toggle that takes the document from "some Todo incomplete" to
\* "every Todo complete", else 0
Completes(before, after) ==
    IF SomeTodoIncomplete(before) /\ EveryTodoComplete(after) THEN 1 ELSE 0

SessionIdle ==
    /\ file = <<>> /\ items = <<>> /\ selected = 0 /\ pc = "Idle"
    /\ term = PriorTerm /\ result = "none" /\ reported = FALSE
    /\ exitPath = "none" /\ loaded = <<>> /\ last = NoEvent /\ walk = NoWalk(0)
    /\ uncelebrated = 0 /\ teardown = "none" /\ missing = FALSE

TextIdle ==
    /\ input = <<>> /\ stage = 0 /\ doc = <<>> /\ text = <<>> /\ first = <<>>
    /\ shown = NoListing

\* `todo show [list]`: the list file holds a text or does not exist
Init ==
    /\ file \in SessionFiles \cup {NoFile}
    /\ items = <<>> /\ selected = 0 /\ pc = "Start"
    /\ term = PriorTerm /\ result = "none" /\ reported = FALSE
    /\ exitPath = "none" /\ loaded = <<>> /\ last = NoEvent /\ walk = NoWalk(0)
    /\ uncelebrated = 0 /\ teardown = "none" /\ missing = FALSE
    /\ TextIdle

\* run_app returned res (or a step of it failed) and show_tui restores the
\* terminal (main.rs:905-918): an error of the loop is printed and show_tui
\* returns Ok; an error of a restore step is returned at once
Finish(res, path, t, o) ==
    /\ pc' = "Terminated"
    /\ term' = restore(t, o)
    /\ result' = IF o = "ok" THEN "Ok" ELSE "Err"
    /\ reported' = (o = "ok" /\ res = "Err")
    /\ exitPath' = path
    /\ teardown' = o
    /\ UNCHANGED missing

\* show_tui from ensure_active_list_exists to the call of run_app
\* (main.rs:892-903): each `?` returns at once. create_fail: the list file is
\* absent and cannot be created (the expect of main.rs:364 panics). gone: the
\* file is absent when load_todos looks for it (removed after main.rs:892).
Start ==
    /\ pc = "Start"
    /\ \E o \in StartOutcomes, gone \in BOOLEAN :
        LET r == load_path(~gone, ensure_active_list_exists(file), o # "load_fail") IN
        /\ o = "create_fail" => file = NoFile
        /\ IF o \in {"ok", "load_fail"} /\ r.ok
           THEN /\ items' = r.items
                /\ loaded' = r.items
                /\ selected' = goto_top(r.items)
                /\ walk' = NoWalk(goto_top(r.items))
                /\ pc' = "Running"
                /\ term' = enter_tui(term)
                /\ UNCHANGED <<result, reported, exitPath, teardown>>
           ELSE /\ pc' = "Terminated"
                /\ result' = IF o = "create_fail" THEN "Panic" ELSE "Err"
                /\ exitPath' = CASE o \in {"load_fail", "backend_fail", "create_fail"} -> o
                                 [] OTHER -> "setup_fail"
                /\ term' = CASE o \in {"create_fail", "enable_raw_fail"} -> term
                             [] o = "enter_fail" -> [term EXCEPT !.raw = TRUE]
                             [] OTHER -> enter_tui(term)
                /\ UNCHANGED <<items, loaded, selected, walk, reported, teardown>>
        /\ IF o \in {"ok", "load_fail"}
           THEN /\ missing' = gone
                /\ file' = IF gone THEN NoFile ELSE ensure_active_list_exists(file)
           ELSE /\ UNCHANGED missing
                /\ file' = IF o = "create_fail" THEN file
                           ELSE ensure_active_list_exists(file)
    /\ UNCHANGED <<last, uncelebrated>>
    /\ UNCHANGED textVars

\* terminal.draw fails (main.rs:815)
DrawFail ==
    /\ pc = "Running"
    /\ \E r \in RestoreOutcomes : Finish("Err", "draw_fail", term, r)
    /\ UNCHANGED <<file, items, selected, loaded, last, walk, uncelebrated>>
    /\ UNCHANGED textVars

\* event::read fails (main.rs:817)
ReadFail ==
    /\ pc = "Running"
    /\ \E r \in RestoreOutcomes : Finish("Err", "read_fail", draw(term), r)
    /\ UNCHANGED <<file, items, selected, loaded, last, walk, uncelebrated>>
    /\ UNCHANGED textVars

\* an event that is no key press, or a press of a key run_app does not bind
IgnoredEvents == {"release", "repeat", "non_key", "other_key"}

\* an ignored event that also writes the list file (a faulty variant of Ignored)
Ignored_saves ==
    /\ pc = "Running"
    /\ \E e \in IgnoredEvents : last' = Event(e, 0, TRUE, "ok")
    /\ file' = save_content(items)
    /\ term' = draw(term)
    /\ walk' = NoWalk(selected)
    /\ UNCHANGED <<items, selected, pc, result, reported, exitPath, loaded,
                   uncelebrated, teardown, missing>>
    /\ UNCHANGED textVars

Ignored ==
    /\ pc = "Running"
    /\ \E e \in IgnoredEvents : last' = Event(e, 0, FALSE, "ok")
    /\ term' = draw(term)
    /\ walk' = NoWalk(selected)
    /\ UNCHANGED <<file, items, selected, pc, result, reported, exitPath, loaded,
                   uncelebrated, teardown, missing>>
    /\ UNCHANGED textVars

\* 'q' (main.rs:820-823)
Quit ==
    /\ pc = "Running"
    /\ \E ok \in BOOLEAN, r \in RestoreOutcomes :
        /\ file' = save_todos(items, ok, file)
        /\ last' = Event("q", 0, ok, IF ok THEN "ok" ELSE "save_fail")
        /\ Finish(IF ok THEN "Ok" ELSE "Err", IF ok THEN "quit" ELSE "save_fail",
                  draw(term), r)
    /\ walk' = NoWalk(selected)
    /\ UNCHANGED <<items, selected, loaded, uncelebrated>>
    /\ UNCHANGED textVars

\* a key that only moves the selection to sel
Move(k, sel) ==
    /\ pc = "Running"
    /\ last' = Event(k, 0, FALSE, "ok")
    /\ term' = draw(term)
    /\ IF sel = Panic
       THEN pc' = "Panicked" /\ UNCHANGED selected
       ELSE selected' = sel /\ UNCHANGED pc
    /\ UNCHANGED <<file, items, result, reported, exitPath, loaded, uncelebrated,
                   teardown, missing>>
    /\ UNCHANGED textVars

\* 'j' / Down (main.rs:824)
KeyNext ==
    /\ Move("j", next(items, selected))
    /\ walk' = LET sel == next(items, selected)
                   ok == sel # Panic /\ sel < Len(items) /\ IsTodo(items[sel + 1])
               IN IF walk.n < Len(items)
                  THEN [start |-> walk.start, n |-> walk.n + 1,
                        onlyTodo |-> walk.onlyTodo /\ ok]
                  ELSE [start |-> selected, n |-> 1, onlyTodo |-> ok]

\* 'k' / Up (main.rs:825)
KeyPrevious ==
    /\ Move("k", previous(items, selected))
    /\ walk' = NoWalk(selected')

\* 'g' (main.rs:826)
KeyTop ==
    /\ Move("g", goto_top(items))
    /\ walk' = NoWalk(selected')

\* 'G' (main.rs:827)
KeyBottom ==
    /\ Move("G", goto_bottom(items))
    /\ walk' = NoWalk(selected')

ToggleOutcomes == {"ok", "save_fail", "disable_raw_fail", "leave_fail", "fireworks_fail"}

\* ' ' / Enter (main.rs:828-864), up to the key press show_fireworks waits for
Toggle ==
    /\ pc = "Running"
    /\ LET before == items
           after == toggle_current(items, selected)
       IN /\ items' = after
          /\ IF ~celebration_due(before, after)
             THEN /\ last' = Event("toggle", 0, FALSE, "ok")
                  /\ term' = draw(term)
                  /\ UNCHANGED <<file, pc, result, reported, exitPath, teardown,
                                   missing>>
             ELSE \E o \in ToggleOutcomes, r \in RestoreOutcomes :
                  /\ file' = save_todos(items_saved_on_toggle(before, after),
                                        o # "save_fail", file)
                  /\ last' = Event("toggle",
                                   IF o \in {"ok", "fireworks_fail"} THEN 1 ELSE 0,
                                   o # "save_fail", o)
                  /\ CASE o = "ok" ->
                            /\ pc' = "ShowingCelebration"
                            /\ term' = [leave_tui(term) EXCEPT !.cursor = FALSE]
                            /\ UNCHANGED <<result, reported, exitPath, teardown, missing>>
                       [] o = "save_fail" ->
                            Finish("Err", "save_fail", draw(term), r)
                       [] o = "disable_raw_fail" ->
                            Finish("Err", "celebration_term_fail", draw(term), r)
                       [] o = "leave_fail" ->
                            Finish("Err", "celebration_term_fail",
                                   [draw(term) EXCEPT !.raw = FALSE], r)
                       [] o = "fireworks_fail" ->
                            Finish("Err", "fireworks_fail",
                                   [leave_tui(term) EXCEPT !.cursor = FALSE], r)
    /\ uncelebrated' = uncelebrated + Completes(items, items') - last'.fired
    /\ walk' = NoWalk(selected)
    /\ UNCHANGED <<selected, loaded>>
    /\ UNCHANGED textVars

FireworksOutcomes == {"ok", "read_fail", "show_fail", "enable_raw_fail", "enter_fail"}

\* the key press that ends show_fireworks (main.rs:680-687) and the return
\* to the TUI (main.rs:857-862)
FireworksKey ==
    /\ pc = "ShowingCelebration"
    /\ \E o \in FireworksOutcomes, r \in RestoreOutcomes :
        CASE o = "ok" ->
                /\ pc' = "Running"
                /\ term' = enter_tui([term EXCEPT !.cursor = TRUE])
                /\ UNCHANGED <<result, reported, exitPath, teardown, missing>>
          [] o \in {"read_fail", "show_fail"} ->
                Finish("Err", "fireworks_fail", term, r)
          [] o = "enable_raw_fail" ->
                Finish("Err", "celebration_term_fail", [term EXCEPT !.cursor = TRUE], r)
          [] o = "enter_fail" ->
                Finish("Err", "celebration_term_fail",
                       [term EXCEPT !.cursor = TRUE, !.raw = TRUE], r)
    /\ UNCHANGED <<file, items, selected, loaded, last, walk, uncelebrated>>
    /\ UNCHANGED textVars

\* an event that is no key event while show_fireworks waits (main.rs:680-684)
FireworksOtherEvent ==
    /\ pc = "ShowingCelebration"
    /\ UNCHANGED vars

Next ==
    \/ Start
    \/ DrawFail
    \/ ReadFail
    \/ Ignored
    \/ Quit
    \/ KeyNext
    \/ KeyPrevious
    \/ KeyTop
    \/ KeyBottom
    \/ Toggle
    \/ FireworksKey
    \/ FireworksOtherEvent

Spec == Init /\ [][Next]_vars

-----------------------------------------------------------------------------
(* Parse / serialize passes over one text *)

\* add_todo: the line "* [ ] <text>\n" is appended to the bytes of the file
add_todo(content, todo_text) == content \o P_OPEN \o <<" ">> \o todo_text \o <<NL>>

\* todo texts of `todo add`
AddTexts == { <<"a">>, <<"a", " ", "b">> }

TextInit ==
    /\ input \in TextInputs
    /\ stage = 0 /\ doc = <<>> /\ text = input /\ first = <<>>
    /\ shown = NoListing
    /\ SessionIdle

\* parse: load_todos on the current text
Parse ==
    /\ stage \in {0, 2}
    /\ doc' = load_todos(text)
    /\ stage' = stage + 1
    /\ UNCHANGED <<input, text, first, shown>>
    /\ UNCHANGED sessionVars

\* serialize: the content save_todos writes for the current document
Serialize ==
    /\ stage \in {1, 3}
    /\ text' = save_content(doc)
    /\ first' = IF stage = 1 THEN save_content(doc) ELSE first
    /\ stage' = stage + 1
    /\ UNCHANGED <<input, doc, shown>>
    /\ UNCHANGED sessionVars

\* `todo add <text>` on the file as it is: stage 5 after the write, stage 6
\* when the file cannot be opened or written (the error is printed)
Add ==
    /\ stage = 0
    /\ \E todo_text \in AddTexts, ok \in BOOLEAN :
          /\ text' = IF ok THEN add_todo(text, todo_text) ELSE text
          /\ stage' = IF ok THEN 5 ELSE 6
    /\ UNCHANGED <<input, doc, first, shown>>
    /\ UNCHANGED sessionVars

\* `todo list` on the file the document was loaded from: stage 7
List ==
    /\ stage = 1
    /\ shown' = display_todo_list(text)
    /\ stage' = 7
    /\ UNCHANGED <<input, doc, text, first>>
    /\ UNCHANGED sessionVars

TextNext ==
    \/ Parse
    \/ Serialize
    \/ Add
    \/ List

SpecText == TextInit /\ [][TextNext]_vars

-----------------------------------------------------------------------------
(* Properties *)

\* the place of Todo index i among the Todo indices of its, from 0
Rank(its, i) == Cardinality({j \in TodoIndices(its) : j < i})

\* C1 as stated: a toggle key event starts the celebration if and only if
\* some Todo was incomplete before it and every Todo is complete after it.
C1_Original ==
    last.key = "toggle" =>
        (last.fired = 1 <=> (SomeTodoIncomplete(last.before) /\ EveryTodoComplete(items)))

\* C1 amended: a toggle key event starts the celebration (calls show_fireworks,
\* once) if and only if some Todo was incomplete before it, every Todo is
\* complete after it, and the save and the switch of the terminal to plain
\* mode that precede the animation succeed; a toggle that leaves another Todo
\* incomplete never starts it.
C1_CelebrationIffCompleted ==
    last.key = "toggle" =>
        /\ last.fired \in {0, 1}
        /\ last.fired = 1 <=>
             /\ SomeTodoIncomplete(last.before)
             /\ EveryTodoComplete(items)
             /\ last.outcome \notin {"save_fail", "disable_raw_fail", "leave_fail"}
        /\ SomeTodoIncomplete(items) => last.fired = 0

C1_Witness ==
    /\ pc = "ShowingCelebration" /\ last.key = "toggle" /\ last.fired = 1
    /\ Cardinality(TodoIndices(items)) >= 2

\* C2: in every Running state, if the document has a Todo record the selection
\* is in [0, len) on a Todo record; if it has none the selection is 0 or the
\* last valid index.
C2_SelectionOnTodo ==
    pc = "Running" =>
        IF TodoIndices(items) # {}
        THEN selected \in 0..(Len(items) - 1) /\ IsTodo(items[selected + 1])
        ELSE selected = 0 \/ (Len(items) > 0 /\ selected = Len(items) - 1)

C2_Witness ==
    /\ pc = "Running" /\ last.key = "G"
    /\ TodoIndices(items) # {}
    /\ ~IsTodo(items[Len(items)])
    /\ selected > 0 /\ selected < Len(items) - 1

\* C3: after a session that ends in quit, re-parsing the written file gives a
\* sequence of the same length with, at every index, the kind and the text of
\* the loaded sequence; the completed flag is the in-memory flag at quit, and
\* differs from the loaded one on Todo records only.
C3_RoundTrip ==
    (pc = "Terminated" /\ exitPath = "quit") =>
        LET re == load_todos(file) IN
        /\ Len(re) = Len(loaded)
        /\ Len(items) = Len(loaded)
        /\ \A i \in 1..Len(loaded) :
             /\ re[i].line_type = loaded[i].line_type
             /\ re[i].text = loaded[i].text
             /\ re[i].completed = items[i].completed
             /\ ~IsTodo(loaded[i]) => re[i].completed = loaded[i].completed

C3_Witness ==
    /\ pc = "Terminated" /\ exitPath = "quit"
    /\ Len(loaded) = MaxLines
    /\ \E i \in 1..Len(loaded) : items[i].completed # loaded[i].completed
    /\ \E i \in 1..Len(loaded) : loaded[i].line_type = "Empty"
    /\ \E i \in 1..Len(loaded) : loaded[i].line_type = "Text"

\* C4: serialize(parse(serialize(parse(x)))) = serialize(parse(x)) for every
\* input text x.
C4_Idempotent == stage = 4 => text = first

C4_Witness ==
    /\ stage = 4 /\ first # input /\ Len(doc) >= 2
    /\ \E i \in 1..Len(doc) : IsTodo(doc[i]) /\ doc[i].text # <<>>

\* C5 as stated: next() called len times on a document with a Todo record
\* visits only Todo records and ends on the record the walk started from.
C5_Original ==
    (walk.n = Len(items) /\ TodoIndices(items) # {}) =>
        walk.onlyTodo /\ selected = walk.start

\* C5 amended: on a document with k >= 1 Todo records, next() called n <= len
\* times from a selected Todo record visits only Todo records and ends on the
\* Todo record n places after the starting one in the circular order of the
\* Todo records; after len calls it is back on the starting record exactly
\* when k divides len.
C5_WalkCycles ==
    (walk.n >= 1 /\ TodoIndices(items) # {} /\ pc # "Panicked") =>
        LET k == Cardinality(TodoIndices(items)) IN
        /\ walk.onlyTodo
        /\ walk.start \in TodoIndices(items)
        /\ selected \in TodoIndices(items)
        /\ Rank(items, selected) = (Rank(items, walk.start) + walk.n) % k
        /\ walk.n = Len(items) => (selected = walk.start <=> Len(items) % k = 0)

C5_Witness ==
    /\ walk.n = Len(items) /\ Len(items) = 3
    /\ Cardinality(TodoIndices(items)) = 2
    /\ selected # walk.start

\* C6: on every path by which show_tui returns after raw mode was enabled
\* (quit, failure to load, failure to save, failure to draw or to read input)
\* the terminal is back in its prior state.  A failure of a restoring call of
\* show_tui itself is not among these paths.
RestoreCallFailed ==
    pc = "Terminated" /\ result = "Err" /\ exitPath \notin {"load_fail", "setup_fail", "backend_fail"}

C6_TerminalRestored ==
    (pc = "Terminated"
        /\ exitPath \in {"quit", "load_fail", "save_fail", "draw_fail", "read_fail"}
        /\ ~RestoreCallFailed)
    => term = PriorTerm

\* C7: a press of the quit key in state Running writes the serialization of
\* the document and then ends the loop; when the write succeeds the stored
\* file is the serialization of the document at termination.
C7_QuitSaves ==
    last.key = "q" =>
        /\ pc = "Terminated"
        /\ items = last.before
        /\ last.saved <=> exitPath = "quit"
        /\ last.saved => file = save_content(items)
        /\ ~last.saved => exitPath = "save_fail"

C7_Witness ==
    /\ last.key = "q" /\ last.saved /\ pc = "Terminated"
    /\ items # loaded
    /\ file = save_content(items)

\* C8: whenever the celebration starts, the document was saved in that same
\* event: the stored file is the serialization of the document, every Todo
\* record of which is complete; it never starts without the write succeeding.
C8_SavedBeforeCelebration ==
    /\ pc = "ShowingCelebration" => (last.key = "toggle" /\ last.fired = 1)
    /\ last.fired = 1 =>
         /\ last.saved
         /\ file = save_content(items)
         /\ EveryTodoComplete(items)
         /\ TodoIndices(items) # {}

C8_Witness ==
    /\ pc = "ShowingCelebration" /\ last.fired = 1
    /\ Len(items) >= 2
    /\ file # save_content(last.before)

\* C9: toggle_current() followed at once by toggle_current(), the selection
\* unchanged, restores the completed value of the selected record and leaves
\* every other record, the length and the selection unchanged.
C9_ToggleTwice ==
    [][(pc = "Running" /\ last.key = "toggle" /\ last'.key = "toggle"
            /\ last'.toggles >= 2 /\ last'.before = items)
        => (items' = last.before /\ Len(items') = Len(last.before)
            /\ selected' = last.selBefore)]_vars

C9_Witness ==
    /\ last.key = "toggle" /\ last.toggles >= 2
    /\ items # last.before
    /\ Len(items) >= 2

\* C10: on a document without Todo records (the empty one included) next,
\* previous, goto_top and goto_bottom never panic and leave the selection in
\* [0, len), or at 0 when the document is empty; next and previous leave it
\* unchanged.
C10_NoTodoNavigation ==
    (pc \in {"Running", "Panicked"} /\ TodoIndices(items) = {}) =>
        /\ pc # "Panicked"
        /\ IF Len(items) = 0 THEN selected = 0 ELSE selected \in 0..(Len(items) - 1)
        /\ last.key \in {"j", "k"} => selected = last.selBefore

C10_Witness ==
    /\ pc = "Running" /\ TodoIndices(items) = {} /\ Len(items) >= 2
    /\ last.key = "j" /\ selected = Len(items) - 1


\* C11 as stated: parsing the six-line example (no line break after its last
\* line) yields the stated records and serializing them reproduces the input
\* byte for byte.
ExampleDoc ==
    << TodoItem(<<"b", "u", "y", " ", "m", "i", "l", "k">>, FALSE, "Todo"),
       TodoItem(<<"p", "a", "y", " ", "r", "e", "n", "t">>, TRUE, "Todo"),
       TodoItem(<<"S", "h", "o", "p", "p", "i", "n", "g">>, FALSE, "Header2"),
       TodoItem(<<"e", "g", "g", "s">>, FALSE, "Bullet"),
       TodoItem(<<>>, FALSE, "Empty"),
       TodoItem(<<"n", "o", "t", "e", " ", "t", "o", " ", "s", "e", "l", "f">>, FALSE, "Text") >>

C11_Original ==
    /\ (input = Example /\ stage = 1) => doc = ExampleDoc
    /\ (input = Example /\ stage = 2) => text = input

\* C11 amended: parsing the six-line example yields [Todo(false), Todo(true),
\* Header2, Bullet, Blank, FreeText] with the stated texts, and serializing
\* that document yields the input followed by one line break (every record is
\* written with its line break); the result is the input byte for byte when
\* the input's last line ends with a line break.
C11_ExampleRoundTrip ==
    /\ (input \in {Example, Example \o <<NL>>} /\ stage = 1) => doc = ExampleDoc
    /\ (input \in {Example, Example \o <<NL>>} /\ stage = 2)
         => text = Example \o <<NL>>

C11_Witness == input = Example /\ stage = 2 /\ text # input /\ doc = ExampleDoc

\* line i of the parsed input, surrounding white space removed
Trimmed(i) == trim(lines(input)[i])

TodoPrefix(l) ==
    starts_with(l, P_OPEN) \/ starts_with(l, P_DONE) \/ starts_with(l, P_DONEX)

\* C12 as stated: every line with the prefix "* " that the two Todo rules do
\* not match is a Bullet, lines such as "* [y] z" or "* [draft" included; the
\* line "*" is FreeText.
C12_Original ==
    stage = 1 =>
        \A i \in 1..Len(doc) :
            /\ (starts_with(Trimmed(i), P_BUL) /\ ~TodoPrefix(Trimmed(i)))
                  => doc[i].line_type = "Bullet"
            /\ Trimmed(i) = <<"*">> => doc[i].line_type = "Text"

\* C12 amended: a line (surrounding white space removed) with the prefix "* "
\* is a Bullet, its text the rest after "* ", only when it does not have the
\* prefix "* ["; a line with the prefix "* [" that the two Todo rules do not
\* match, such as "* [y] z" or "* [draft", is FreeText with the whole trimmed
\* line as text; the line "*" is FreeText.
C12_BulletRule ==
    stage = 1 =>
        \A i \in 1..Len(doc) :
            /\ (starts_with(Trimmed(i), P_BUL) /\ ~starts_with(Trimmed(i), P_BRA))
                  => doc[i] = TodoItem(Drop(Trimmed(i), 2), FALSE, "Bullet")
            /\ (starts_with(Trimmed(i), P_BRA) /\ ~TodoPrefix(Trimmed(i)))
                  => doc[i] = TodoItem(Trimmed(i), FALSE, "Text")
            /\ Trimmed(i) = <<"*">> => doc[i] = TodoItem(<<"*">>, FALSE, "Text")

C12_Witness ==
    /\ stage = 1
    /\ \E i \in 1..Len(doc) :
          /\ starts_with(Trimmed(i), P_BRA) /\ ~TodoPrefix(Trimmed(i))
          /\ Len(Trimmed(i)) > 3
          /\ doc[i].line_type = "Text"

\* the header rules in the order of the description: "=== ", then "== ",
\* then "= ", first match wins; <<kind, prefix>>, or <<"none", <<>> >>
DescribedHeader(l) ==
    IF starts_with(l, P_H3) THEN <<"Header3", P_H3>>
    ELSE IF starts_with(l, P_H2) THEN <<"Header2", P_H2>>
    ELSE IF starts_with(l, P_H1) THEN <<"Header1", P_H1>>
    ELSE <<"none", <<>> >>

\* C13: for every line the header kind load_todos chooses (it tests "= "
\* first, then "== ", then "=== ") is the kind the described precedence
\* chooses, and the text is the line with exactly that prefix removed.
C13_HeaderOrder ==
    stage = 1 =>
        \A i \in 1..Len(doc) :
            LET d == DescribedHeader(Trimmed(i)) IN
            /\ (doc[i].line_type \in {"Header1", "Header2", "Header3"}) <=> d[1] # "none"
            /\ d[1] # "none" =>
                  /\ doc[i].line_type = d[1]
                  /\ d[2] \o doc[i].text = Trimmed(i)
                  /\ ~doc[i].completed

C13_Witness ==
    /\ stage = 1
    /\ \E i \in 1..Len(doc) :
          /\ doc[i].line_type \in {"Header2", "Header3"}
          /\ starts_with(doc[i].text, P_H1)

LineKinds == {"Todo", "Header1", "Header2", "Header3", "Bullet", "Text", "Empty"}

\* C14: every line with the prefix "* [ ]" is a Todo with completed = false,
\* every line with the prefix "* [x]" or "* [X]" a Todo with completed = true,
\* before any other rule; the text is the rest after the prefix with the
\* surrounding white space removed (possibly empty); every line is classified.
C14_TodoRules ==
    stage = 1 =>
        /\ Len(doc) = Len(lines(input))
        /\ \A i \in 1..Len(doc) :
              /\ doc[i].line_type \in LineKinds
              /\ starts_with(Trimmed(i), P_OPEN)
                    => doc[i] = TodoItem(trim(Drop(Trimmed(i), 5)), FALSE, "Todo")
              /\ (starts_with(Trimmed(i), P_DONE) \/ starts_with(Trimmed(i), P_DONEX))
                    => doc[i] = TodoItem(trim(Drop(Trimmed(i), 5)), TRUE, "Todo")

C14_Witness ==
    /\ stage = 1
    /\ \E i \in 1..Len(doc) :
          /\ starts_with(Trimmed(i), P_DONEX)
          /\ doc[i].text # <<>>
          /\ doc[i].text # Drop(Trimmed(i), 5)

\* C15: after add_todo the file parses to the records of the file before the
\* add, unchanged, followed by one Todo record with completed = false.
C15_AddAppendsOneTodo ==
    stage = 5 =>
        LET before == load_todos(input)
            after  == load_todos(text)
        IN  /\ Len(after) = Len(before) + 1
            /\ SubSeq(after, 1, Len(before)) = before
            /\ after[Len(after)].line_type = "Todo"
            /\ ~after[Len(after)].completed

\* C16: when save_todos fails (on 'q' or before the celebration) the loop ends
\* in that step with the error, show_tui reports it, and show_fireworks is
\* not called.
C16_SaveFailureSurfaced ==
    last.outcome = "save_fail" =>
        /\ pc = "Terminated"
        /\ exitPath = "save_fail"
        /\ reported
        /\ last.fired = 0

\* the document has exactly one incomplete Todo record and it is the selected one
OneIncompleteSelected(its, sel) ==
    /\ sel < Len(its)
    /\ {i \in TodoIndices(its) : ~its[i + 1].completed} = {sel}

SwitchToCelebrationFailed == {"save_fail", "disable_raw_fail", "leave_fail"}

\* C17 as stated: a toggle of the only incomplete Todo starts the celebration,
\* a toggle that un-completes a Todo does not, and the celebrations of a run
\* are as many as its toggles that completed the list.
C17_Original ==
    /\ uncelebrated = 0
    /\ last.key = "toggle" =>
          /\ OneIncompleteSelected(last.before, last.selBefore) => last.fired = 1
          /\ EveryTodoComplete(last.before) => last.fired = 0

\* C17 amended: a toggle of the only incomplete Todo starts the celebration
\* when the save and the switch to plain mode before it succeed, at the first
\* toggle and again at the third; the toggle between them, which un-completes
\* the Todo, does not; the celebrations of a run are as many as its toggles
\* that completed the list, less the one toggle, the last event of the run,
\* whose save or switch to plain mode failed.
C17_CelebrationRepeats ==
    /\ uncelebrated \in {0, 1}
    /\ uncelebrated = 1 <=>
          /\ pc = "Terminated"
          /\ last.key = "toggle"
          /\ last.outcome \in SwitchToCelebrationFailed
    /\ last.key = "toggle" =>
          /\ OneIncompleteSelected(last.before, last.selBefore)
                => (last.fired = 1 <=> last.outcome \notin SwitchToCelebrationFailed)
          /\ EveryTodoComplete(last.before) => last.fired = 0

\* the third toggle in a row of the only incomplete Todo of the list as loaded
C17_Witness ==
    /\ pc = "ShowingCelebration"
    /\ last.key = "toggle" /\ last.toggles = 3 /\ last.fired = 1
    /\ last.before = loaded
    /\ OneIncompleteSelected(loaded, last.selBefore)
    /\ uncelebrated = 0

\* C18 as stated: while the celebration runs the terminal is in plain mode;
\* when the animation has completed (show_fireworks did not fail) the terminal
\* is back in interactive mode and the session is Running with the document
\* and the selection as they were.
C18_Original ==
    [][ /\ pc' = "ShowingCelebration" => (~term'.raw /\ ~term'.alt)
        /\ (pc = "ShowingCelebration" /\ pc' # pc /\ exitPath' # "fireworks_fail")
              => /\ pc' = "Running"
                 /\ term'.raw /\ term'.alt
                 /\ items' = items /\ selected' = selected ]_vars

\* C18 amended: while the celebration runs the terminal is in plain mode; the
\* step that ends it leaves the document, the selection and the file as they
\* were; it returns to Running, with raw mode on and the alternate screen
\* entered, unless show_fireworks or one of the two calls that switch the
\* terminal back fails, and then the loop ends with that error.
C18_CelebrationTerminal ==
    [][ /\ pc' = "ShowingCelebration" => (~term'.raw /\ ~term'.alt)
        /\ (pc = "ShowingCelebration" /\ pc' # pc)
              => /\ items' = items /\ selected' = selected /\ file' = file
                 /\ \/ pc' = "Running" /\ term'.raw /\ term'.alt
                           /\ exitPath' = "none" /\ result' = "none"
                    \/ pc' = "Terminated"
                           /\ exitPath' \in {"fireworks_fail", "celebration_term_fail"} ]_vars

\* back in the TUI after a celebration, the toggled document and the selection kept
C18_Witness ==
    /\ pc = "Running"
    /\ last.key = "toggle" /\ last.fired = 1
    /\ term.raw /\ term.alt
    /\ items = toggle_current(last.before, last.selBefore)
    /\ selected = last.selBefore

\* a call that enters or leaves raw mode or the alternate screen failed
TerminalStepFailed ==
    /\ pc = "Terminated"
    /\ \/ exitPath \in {"setup_fail", "celebration_term_fail"}
       \/ teardown \in {"disable_raw_fail", "leave_fail"}

\* C19: when a call that enters or leaves raw mode or the alternate screen
\* fails, every restore step the terminal still needs (raw mode on, alternate
\* screen entered, cursor hidden) is called before show_tui returns the error.
C19_RestoreStillAttempted ==
    TerminalStepFailed =>
        /\ term.raw => "disable_raw_mode" \in attempted(teardown)
        /\ term.alt => "leave_alternate_screen" \in attempted(teardown)
        /\ ~term.cursor => "show_cursor" \in attempted(teardown)

\* C20: when no file exists at the path load_todos returns the empty document
\* and no error; the session on it has selection 0, no key event panics or
\* changes the document, and a quit writes an empty file (until then no file
\* is written).
C20_MissingFile ==
    missing =>
        /\ pc \in {"Running", "Terminated"}
        /\ exitPath # "load_fail"
        /\ loaded = <<>> /\ items = <<>> /\ selected = 0
        /\ exitPath = "quit" => file = <<>>
        /\ exitPath # "quit" => file = NoFile

C20_Witness ==
    /\ missing
    /\ pc = "Terminated" /\ exitPath = "quit" /\ last.key = "q"
    /\ items = <<>> /\ file = <<>>

\* C21: after 'g' the selection is the index of the first Todo record, after
\* 'G' the index of the last one; without a Todo record it is 0 after 'g' and
\* len - 1 after 'G' (0 for the empty document).
C21_Jumps ==
    (pc = "Running" /\ last.key \in {"g", "G"}) =>
        LET n == Len(items)
            todo(i) == i \in 0..(n - 1) /\ items[i + 1].line_type = "Todo"
            none == \A i \in 0..(n - 1) : ~todo(i)
        IN  /\ items = last.before
            /\ (last.key = "g" /\ ~none)
                  => (todo(selected) /\ \A i \in 0..(selected - 1) : ~todo(i))
            /\ (last.key = "G" /\ ~none)
                  => (todo(selected) /\ \A i \in (selected + 1)..(n - 1) : ~todo(i))
            /\ (last.key = "g" /\ none) => selected = 0
            /\ (last.key = "G" /\ none) => selected = (IF n = 0 THEN 0 ELSE n - 1)

\* 'g' from a later Todo to the first one, which is not the first line
C21_Witness ==
    /\ pc = "Running" /\ last.key = "g"
    /\ selected >= 1 /\ last.selBefore > selected
    /\ IsTodo(items[selected + 1])

\* the index of the first Todo record strictly after (dir = 1) or strictly
\* before (dir = -1) index s in circular order; s itself after a full turn
CircularTodo(its, s, dir) ==
    LET n == Len(its)
        at(d) == (s + n + dir * d) % n
        d0 == CHOOSE d \in 1..n :
                 /\ IsTodo(its[at(d) + 1])
                 /\ \A e \in 1..(d - 1) : ~IsTodo(its[at(e) + 1])
    IN  at(d0)

\* C22: with the selection on a Todo record, 'j' selects the first Todo record
\* strictly after it in circular order and 'k' the first one strictly before
\* it (the same record when it is the only Todo); a 'k' right after a 'j', and
\* a 'j' right after a 'k', give back the index selected before the two.
C22_NextPrevious ==
    [][ (/\ pc = "Running" /\ pc' = "Running"
         /\ selected < Len(items) /\ IsTodo(items[selected + 1])
         /\ last'.key \in {"j", "k"}
         /\ last'.before = items /\ last'.selBefore = selected)
        => /\ items' = items
           /\ last'.key = "j" => selected' = CircularTodo(items, selected, 1)
           /\ last'.key = "k" => selected' = CircularTodo(items, selected, 0 - 1)
           /\ (last.key \in {"j", "k"} /\ last.key # last'.key
                  /\ last.before = items
                  /\ last.selBefore < Len(items)
                  /\ IsTodo(items[last.selBefore + 1]))
                => selected' = last.selBefore ]_vars

\* 'k' from a Todo back to the Todo before it over a record that is no Todo
C22_Witness ==
    /\ pc = "Running" /\ last.key = "k"
    /\ last.selBefore < Len(items)
    /\ IsTodo(items[last.selBefore + 1])
    /\ selected + 1 < last.selBefore
    /\ IsTodo(items[selected + 1])
    /\ ~IsTodo(items[selected + 2])

\* C23: a key event handled in state Running leaves the number of records,
\* their order, kinds and texts as they were; only a toggle event changes a
\* completed flag, and only that of the record at the selection index.
C23_DocumentFrame ==
    last.key # "none" =>
        /\ Len(items) = Len(last.before)
        /\ \A i \in 1..Len(items) :
              /\ items[i].line_type = last.before[i].line_type
              /\ items[i].text = last.before[i].text
              /\ items[i].completed # last.before[i].completed
                    => (last.key = "toggle" /\ i = last.selBefore + 1)

\* a toggle in a document with a second Todo record and a record of another kind
C23_Witness ==
    /\ pc = "Running" /\ last.key = "toggle"
    /\ items # last.before
    /\ Cardinality(TodoIndices(items)) >= 2
    /\ \E i \in 1..Len(items) : ~IsTodo(items[i])

\* C24: an event that is no key press (release, repeat, no key event) and a
\* press of a key that is not bound change nothing: the document, the
\* selection, the stored file, the terminal mode and the session state stay
\* as they are, and the loop is still running.
C24_IgnoredEvents ==
    [][ (/\ pc = "Running"
         /\ last'.key \in IgnoredEvents
         /\ (pc' = "Running" \/ last' # last))
        => /\ pc' = "Running"
           /\ items' = items /\ selected' = selected /\ file' = file
           /\ term'.raw = term.raw /\ term'.alt = term.alt /\ term'.mouse = term.mouse
           /\ result' = result /\ exitPath' = exitPath /\ reported' = reported
           /\ last'.fired = 0 /\ ~last'.saved ]_vars

\* a key repeat while the document holds a toggle that is not in the file
C24_Witness ==
    /\ pc = "Running" /\ last.key = "repeat"
    /\ file # NoFile /\ items # load_todos(file)
    /\ last.before = items /\ last.selBefore = selected
    /\ term.raw /\ term.alt

\* C25: in every state of a session, as loaded and after any navigation and
\* toggle events, every record that is no Todo has completed = false; a
\* toggle event with the selection on a record that is no Todo (or on no
\* record) leaves the document as it was.
C25_NonTodoNeverCompleted ==
    /\ \A i \in 1..Len(items) : items[i].line_type # "Todo" => ~items[i].completed
    /\ \A i \in 1..Len(loaded) : loaded[i].line_type # "Todo" => ~loaded[i].completed
    /\ (/\ last.key = "toggle"
        /\ \/ last.selBefore >= Len(last.before)
           \/ last.before[last.selBefore + 1].line_type # "Todo")
          => items = last.before

\* two toggles in a row on the last line of a document without a Todo record
C25_Witness ==
    /\ pc = "Running" /\ last.key = "toggle" /\ last.toggles = 2
    /\ Len(items) >= 2 /\ selected = Len(items) - 1
    /\ TodoIndices(items) = {}
    /\ \E i \in 1..Len(items) : items[i].line_type \in {"Header2", "Bullet"}

\* C26: inside the loop the list file changes only in a step of 'q' and in a
\* step of a toggle that takes the list from "some Todo incomplete" to "every
\* Todo complete", and then to the serialization of the document; no other
\* event saves; a loop that ends on a draw or read error leaves the file as it
\* was, without the toggles made since the last write.
C26_FileWrites ==
    [][ (pc = "Running" \/ pc = "ShowingCelebration") =>
        (/\ file' # file =>
               /\ last'.saved
               /\ file' = save_content(items')
               /\ \/ last'.key = "q"
                  \/ /\ last'.key = "toggle"
                     /\ SomeTodoIncomplete(items) /\ EveryTodoComplete(items')
         /\ last'.saved =>
               /\ last'.key \in {"q", "toggle"}
               /\ last'.key = "toggle" => EveryTodoComplete(items')
         /\ exitPath' \in {"draw_fail", "read_fail"} => file' = file) ]_vars

\* the loop ended on a read error after a toggle that is not in the file
C26_Witness ==
    /\ pc = "Terminated" /\ exitPath = "read_fail"
    /\ last.key = "toggle" /\ ~last.saved
    /\ items # last.before
    /\ file # NoFile /\ load_todos(file) = loaded /\ items # loaded

\* the shape display_todo_list prints for a record of load_todos
ShapeOf(item) ==
    CASE item.line_type = "Todo" -> IF item.completed THEN "checked_box" ELSE "open_box"
      [] item.line_type = "Header1" -> "header1"
      [] item.line_type = "Header2" -> "header2"
      [] item.line_type = "Header3" -> "header3"
      [] item.line_type = "Bullet" -> "bullet"
      [] item.line_type = "Empty" -> "blank"
      [] item.line_type = "Text" -> "text"

\* C27: display_todo_list and load_todos classify every line of a file alike,
\* with the same kind and the same text, and the incomplete / complete counts
\* of the list command are those of count_todos on the loaded document.
C27_SameGrammar ==
    stage = 7 =>
        /\ Len(shown.printed) = Len(doc)
        /\ \A i \in 1..Len(doc) :
              /\ shown.printed[i].shape = ShapeOf(doc[i])
              /\ shown.printed[i].text = doc[i].text
        /\ <<shown.incomplete_count, shown.complete_count>> = count_todos(doc)
        /\ shown.has_todos <=> TodoIndices(doc) # {}

\* a listing with a complete todo written "* [X]" and an incomplete one
C27_Witness ==
    /\ stage = 7
    /\ shown.incomplete_count = 1 /\ shown.complete_count = 1
    /\ \E i \in 1..Len(doc) : starts_with(Trimmed(i), P_DONEX)

=============================================================================
